---------------------------- MODULE Spec2Model ----------------------------
(***************************************************************************)
(* Model of the bank-statement parser agent (src/agent.py), the parser     *)
(* artifact it left behind (src/custom_parsers/icici_parser.py) and the    *)
(* test suite that exercises that artifact (src/test_agent.py).            *)
(*                                                                         *)
(* Text that the program inspects character by character (LLM responses,   *)
(* the parser file, the text extracted from a PDF) is a sequence of        *)
(* tokens.  A token is one character where the program looks at single     *)
(* characters, and one opaque word otherwise.  Error messages, which the   *)
(* program only builds and joins, are TLA+ strings.                        *)
(***************************************************************************)
EXTENDS Naturals, Sequences, FiniteSets, TLC

(***************************************************************************)
(* Tokens of source-like text.                                             *)
(*   BT      one backtick character                                        *)
(*   BS      one backslash character                                       *)
(*   NL, SP  newline, blank                                                *)
(*   PYWORD  the word python, JSWORD the word json                         *)
(*   CODE    a run of Python source without backticks or line breaks       *)
(*   PROSE   a run of natural-language text (not Python)                   *)
(***************************************************************************)
BT == "BT"
BS == "BS"
NL == "NL"
SP == "SP"
PYWORD == "python"
CODE == "CODE"
PROSE == "PROSE"

\* A markdown fence as an LLM writes it: three backticks.
Fence == <<BT, BT, BT>>
\* The literal the agent searches for, "\`\`\`": in Python an unknown escape
\* keeps its backslash, so the literal is backslash, backtick, three times.
FenceLiteral == <<BS, BT, BS, BT, BS, BT>>
FencePythonLiteral == FenceLiteral \o <<PYWORD>>

-----------------------------------------------------------------------------
(* Python str operations on token sequences. *)

IsSpace(c) == c \in {NL, SP}

StartsWith(s, m) == Len(s) >= Len(m) /\ SubSeq(s, 1, Len(m)) = m

\* str.find: least index (1-based) at which m occurs in s, 0 when it does not.
Find(s, m) ==
  LET hits == {i \in 1..(Len(s) + 1) : i + Len(m) - 1 <= Len(s)
                                         /\ SubSeq(s, i, i + Len(m) - 1) = m}
  IN  IF hits = {} THEN 0 ELSE CHOOSE i \in hits : \A j \in hits : i <= j

\* m in s
Contains(s, m) == Find(s, m) # 0

\* str.split(m) for a non-empty separator m.
RECURSIVE Split(_, _)
Split(s, m) ==
  LET i == Find(s, m)
  IN  IF i = 0 THEN <<s>>
      ELSE <<SubSeq(s, 1, i - 1)>> \o Split(SubSeq(s, i + Len(m), Len(s)), m)

RECURSIVE LStrip(_)
LStrip(s) == IF s # <<>> /\ IsSpace(Head(s)) THEN LStrip(Tail(s)) ELSE s

RECURSIVE RStrip(_)
RStrip(s) ==
  IF s # <<>> /\ IsSpace(s[Len(s)]) THEN RStrip(SubSeq(s, 1, Len(s) - 1)) ELSE s

\* str.strip()
Strip(s) == RStrip(LStrip(s))

\* sep.join(parts) on token sequences
RECURSIVE Join(_, _)
Join(parts, sep) ==
  IF parts = <<>> THEN <<>>
  ELSE IF Len(parts) = 1 THEN parts[1]
  ELSE parts[1] \o sep \o Join(Tail(parts), sep)

\* "\n".join(strs) on message strings
RECURSIVE JoinLines(_)
JoinLines(strs) ==
  IF strs = <<>> THEN ""
  ELSE IF Len(strs) = 1 THEN strs[1]
  ELSE strs[1] \o "\n" \o JoinLines(Tail(strs))


-----------------------------------------------------------------------------
(* _generate_phase: the clean-up of the LLM response before it is written. *)

\* The loop over the lines of the code: a line whose stripped text starts with
\* the fence literal toggles in_code_block and is dropped, every other line is
\* kept (the test on the second "if" is then always true).
RECURSIVE CleanLines(_, _)
CleanLines(lines, in_code_block) ==
  IF lines = <<>> THEN <<>>
  ELSE LET line == Head(lines)
       IN  IF StartsWith(Strip(line), FenceLiteral)
           THEN CleanLines(Tail(lines), ~in_code_block)
           ELSE IF in_code_block \/ ~StartsWith(Strip(line), FenceLiteral)
                THEN <<line>> \o CleanLines(Tail(lines), in_code_block)
                ELSE CleanLines(Tail(lines), in_code_block)

\* The text between the markers, as the two "if" branches extract it.
ExtractBlock(code) ==
  IF Contains(code, FencePythonLiteral)
  THEN Split(Split(code, FencePythonLiteral)[2], FenceLiteral)[1]
  ELSE IF Contains(code, FenceLiteral)
       THEN LET parts == Split(code, FenceLiteral)
            IN  IF Len(parts) >= 3 THEN parts[2] ELSE code
       ELSE code

\* The whole clean-up: content.strip(), block extraction, strip, line filter.
CleanCode(content) ==
  LET code == Strip(ExtractBlock(Strip(content)))
  IN  IF StartsWith(code, FenceLiteral)
      THEN Join(CleanLines(Split(code, <<NL>>), FALSE), <<NL>>)
      ELSE code

\* The lines of a text, and whether one of them starts with a markdown fence.
Lines(text) == Split(text, <<NL>>)
HasFenceLine(text) ==
  \E i \in 1..Len(Lines(text)) : StartsWith(Lines(text)[i], Fence)

\* What the Python compiler accepts: a backtick or a backslash outside a
\* string, and prose, are syntax errors; the empty module compiles.
PyCompiles(text) == \A i \in 1..Len(text) : text[i] \in {CODE, NL, SP}

-----------------------------------------------------------------------------
(* _test_phase: the checks made on what the generated module does. *)

\* The columns the test suite expects of the ICICI parser, which are the header
\* of data/icici/result.csv.
IciciColumns == <<"Date", "Description", "Debit Amt", "Credit Amt", "Balance">>

\* The expected output files a run may be given: their header and row count.
CsvFiles ==
  { [columns |-> IciciColumns, rows |-> 2],
    [columns |-> <<"Txn", "Amount">>, rows |-> 1],
    [columns |-> <<>>, rows |-> 0] }

\* str(list_of_names), as Python prints a list of strings.
RECURSIVE QuotedNames(_)
QuotedNames(cols) ==
  IF cols = <<>> THEN ""
  ELSE IF Len(cols) = 1 THEN "'" \o cols[1] \o "'"
  ELSE "'" \o cols[1] \o "', " \o QuotedNames(Tail(cols))

ListStr(cols) == "[" \o QuotedNames(cols) \o "]"

\* str(df.shape)
ShapeStr(rows, ncols) == "(" \o ToString(rows) \o ", " \o ToString(ncols) \o ")"

InSeq(x, seq) == \E i \in 1..Len(seq) : seq[i] = x

\* str(e) of what pd.read_csv raises on a file it cannot parse
CsvError == "No columns to parse from file"

\* dict.get(key, default)
DictGet(d, key, default) == IF key \in DOMAIN d THEN d[key] ELSE default

(***************************************************************************)
(* What importing the parser file and calling parse(pdf_path) does, as the *)
(* test phase observes it:                                                 *)
(*   kind "import_error"  the import raises ImportError(msg)               *)
(*   kind "raise"         the import or parse raises another Exception(msg)*)
(*   kind "value"         parse returns something that is no DataFrame     *)
(*   kind "df"            parse returns a DataFrame with columns cols and  *)
(*                        rows rows; dateOk: pd.to_datetime accepts the    *)
(*                        first Date cell                                  *)
(***************************************************************************)
\* A test phase that compares only the number of columns and never looks at
\* the rows.
TestPhaseShapeOnly(b, csv) ==
  IF b.kind = "df" /\ csv.readable /\ Len(b.cols) = Len(csv.columns)
  THEN [success |-> TRUE, message |-> "Parser working correctly."]
  ELSE [success |-> FALSE, error |-> "Parser execution failed"]

TestPhase(b, csv) ==
  IF b.kind = "import_error"
  THEN [success |-> FALSE, error |-> "Failed to import parser: " \o b.msg]
  ELSE IF b.kind = "raise"
  THEN [success |-> FALSE, error |-> "Parser execution failed: " \o b.msg]
  ELSE IF ~csv.readable
  THEN [success |-> FALSE, error |-> "Parser execution failed: " \o CsvError]
  ELSE IF b.kind # "df"
  THEN [success |-> FALSE, error |-> "Parser did not return a DataFrame"]
  ELSE IF b.cols # csv.columns
  THEN [success |-> FALSE,
        error |-> "Column mismatch. Expected: " \o ListStr(csv.columns)
                    \o ", Got: " \o ListStr(b.cols)]
  ELSE IF b.rows = 0
  THEN [success |-> FALSE, error |-> "Parser returned empty DataFrame"]
  ELSE IF Len(b.cols) = Len(csv.columns)
  THEN IF InSeq("Date", b.cols) /\ ~b.dateOk
       THEN [success |-> FALSE, error |-> "Data validation failed: " \o b.msg]
       ELSE [success |-> TRUE,
             message |-> "Parser working correctly. Generated "
                           \o ToString(b.rows) \o " transactions."]
  ELSE [success |-> FALSE,
        error |-> "DataFrame shape mismatch. Expected: "
                    \o ShapeStr(csv.rows, Len(csv.columns)) \o ", Got: "
                    \o ShapeStr(b.rows, Len(b.cols))]

-----------------------------------------------------------------------------
(* The inputs of a run: command line, environment, files, the LLM service. *)

\* AgentState.max_attempts
max_attempts == 3

\* The largest number of rows a DataFrame returned by a generated parser has.
MaxRows == 2

\* The largest number of pieces an LLM response is put together from.
MaxSegments == 5

\* Python's None where a string is expected.
NONE == "<None>"

\* bool(v) for a string or None
Truthy(v) == v # NONE /\ v # ""

\* a or b
PyOr(a, b) == IF Truthy(a) THEN a ELSE b

\* What --api-key and GROQ_API_KEY may hold.
ArgKeys == {NONE, "gsk_arg"}
EnvKeys == {NONE, "gsk_env"}

\* An exception: its class and str(e).
Exc(cls, msg) == [cls |-> cls, msg |-> msg]

\* The classes of the exceptions raised in a run; all derive from Exception.
\* (SystemExit and KeyboardInterrupt, which do not, end the process and are
\* not outcomes of a phase.)
ExceptionSubclasses ==
  {"APIConnectionError", "APIStatusError", "EmptyDataError", "ImportError",
   "SyntaxError", "AttributeError", "FileNotFoundError", "ValueError"}

\* What the LLM client raises when a request fails.
LlmErrors == {Exc("APIConnectionError", "Connection error."), Exc("APIStatusError", "")}

\* What pd.read_csv raises on a file it cannot parse.
CsvException == Exc("EmptyDataError", CsvError)

\* The responses to the plan request: the request raises, or the text holds a
\* non-empty JSON list, an empty JSON list, or nothing json.loads accepts.
PlanOutcomes == {"raise", "list", "empty", "garbage"}

\* What _plan_phase returns for each: the parsed list, or the fallback plan of
\* its except clause.
PlanOf(o) == CASE o = "list" -> "llm" [] o = "empty" -> "empty" [] OTHER -> "fallback"

\* The responses to the generate request (message.content).
Block(open, body, close) == open \o <<NL>> \o body \o <<NL>> \o close
GenResponses ==
  { <<CODE>>,
    Block(Fence \o <<PYWORD>>, <<CODE>>, Fence),
    Block(FencePythonLiteral, <<CODE>>, FenceLiteral),
    <<>> }

\* The parser file as the repository ships it (custom_parsers/icici_parser.py):
\* a fence line, the source, a fence line.
ShippedParser == Block(Fence, <<CODE, NL, CODE>>, Fence)

\* The column lists a generated parser may return.
ResultColumns ==
  { IciciColumns,
    <<"Description", "Date", "Debit Amt", "Credit Amt", "Balance">>,
    <<"Date", "Description", "Amount">>,
    <<"Txn", "Amount">>,
    <<>> }

Behaviour(kind, msg, cols, rows, dateOk) ==
  [kind |-> kind, msg |-> msg, cols |-> cols, rows |-> rows, dateOk |-> dateOk]

\* What importing and calling a parser file can do: a file that does not
\* compile raises SyntaxError, an empty module has no parse, and what source
\* that compiles does is up to the source.
Behaviours(text) ==
  IF ~PyCompiles(text)
  THEN {Behaviour("raise", "invalid syntax", <<>>, 0, TRUE)}
  ELSE IF ~InSeq(CODE, text)
  THEN {Behaviour("raise", "module has no attribute 'parse'", <<>>, 0, TRUE)}
  ELSE {Behaviour("import_error", "No module named 'pdfplumber'", <<>>, 0, TRUE),
        Behaviour("raise", "No such file", <<>>, 0, TRUE),
        Behaviour("value", "", <<>>, 0, TRUE),
        Behaviour("df", "", <<"Date", "Description", "Amount">>, 1, TRUE),
        Behaviour("df", "", IciciColumns, 0, TRUE),
        Behaviour("df", "Unknown datetime string format", IciciColumns, 1, FALSE),
        Behaviour("df", "", IciciColumns, 1, TRUE)}

\* Every observation the test phase is checked on by itself.
TestInputs ==
  {Behaviour(k, m, <<>>, 0, TRUE) :
     k \in {"import_error", "raise", "value"}, m \in {"", "No such file"}}
  \cup {Behaviour("df", "Unknown datetime string format", c, r, d) :
          c \in ResultColumns, r \in 0..MaxRows, d \in BOOLEAN}

-----------------------------------------------------------------------------
(* The state of one invocation of the command line. *)

VARIABLES
  pc,              \* where main() is: "main", "run", "loop", "plan", "generate",
                   \* "test", "returned", "exited", "crashed"
  arg_api_key,     \* --api-key, NONE when not given
  env_api_key,     \* GROQ_API_KEY, NONE when not set
  groq_installed,  \* whether "from groq import Groq" succeeds
  api_key,         \* self.api_key
  pdfs,            \* which of the three candidate sample paths exist
  csv_exists,      \* data/<bank>/result.csv exists
  csv,             \* its content; csv.readable: pd.read_csv accepts it
  dir_exists,      \* the directory custom_parsers exists
  parser_file,     \* custom_parsers/<bank>_parser.py: [exists, text]
  pdf_path,        \* state.pdf_path: index of the chosen candidate, 0 for None
  attempt,         \* state.attempt
  current_plan,    \* state.current_plan: "None", "empty", "llm", "fallback"
  generated_code,  \* state.generated_code
  test_results,    \* state.test_results, << >> for None
  errors,          \* state.errors
  retval,          \* << >> while run has not returned, else <<value>>
  exit_status,     \* << >> while the process runs, else <<status>>
  response,        \* the content of the last generate response, << >> before
  observed,        \* what the last test phase saw the parser do, << >> before
  pdf_text,        \* what pdfplumber extracts from the sample PDF: [ok, text]
  log              \* the requests, writes, tests and failures so far

vars == <<pc, arg_api_key, env_api_key, groq_installed, api_key, pdfs,
          csv_exists, csv, dir_exists, parser_file, pdf_path, attempt,
          current_plan, generated_code, test_results, errors, retval,
          exit_status, response, observed, pdf_text, log>>

agentState == <<attempt, current_plan, generated_code, test_results, errors,
                response, observed>>
inputs == <<arg_api_key, env_api_key, groq_installed, pdfs, csv_exists, csv,
            pdf_text>>

\* An entry of the log: what happened (k), in which attempt, with what.
Event(k, data) == [k |-> k, attempt |-> attempt, data |-> data]
Failure(msg, cause) == Event("error", [msg |-> msg, cause |-> cause])

\* The candidate paths of the sample PDF, in the order run tries them.
PdfCandidates == {1, 2, 3}

Min(S) == CHOOSE x \in S : \A y \in S : x <= y

\* The fields of the agent before run has touched them.
Fresh ==
  /\ api_key = NONE
  /\ pdf_path = 0
  /\ attempt = 0
  /\ current_plan = "None"
  /\ generated_code = <<>>
  /\ test_results = <<>>
  /\ errors = <<>>
  /\ retval = <<>>
  /\ exit_status = <<>>
  /\ response = <<>>
  /\ observed = <<>>
  /\ log = <<>>

\* The expected output file of the run: the ICICI one, which pd.read_csv may
\* or may not be able to parse.
RunCsvs == { [columns |-> IciciColumns, rows |-> 2, readable |-> r] : r \in BOOLEAN }

\* The inputs under which run reaches its loop.
EntersLoop == groq_installed /\ pdfs # {} /\ csv_exists

\* The key inputs and the choice among several sample PDFs are read before the
\* loop and never in it: the runs that reach the loop are explored for one
\* setting of the keys and for the first and the last candidate path.
Init ==
  /\ pc = "main"
  /\ arg_api_key \in ArgKeys
  /\ env_api_key \in EnvKeys
  /\ groq_installed \in BOOLEAN
  /\ pdfs \in SUBSET PdfCandidates
  /\ csv_exists \in BOOLEAN
  /\ EntersLoop => /\ arg_api_key = "gsk_arg" /\ env_api_key = NONE
                   /\ pdfs \in {{1}, {3}}
  /\ csv \in RunCsvs
  /\ pdf_text = [ok |-> TRUE, text |-> <<>>]
  /\ parser_file \in { [exists |-> FALSE, text |-> <<>>],
                       [exists |-> TRUE, text |-> ShippedParser] }
  /\ dir_exists \in {parser_file.exists, TRUE}
  /\ Fresh

-----------------------------------------------------------------------------
(* BankParserAgent.__init__ and setup_llm *)

\* self.api_key = "api_key" or os.getenv("GROQ_API_KEY")
InitApiKey(arg, env) == PyOr("api_key", env)

\* setup_llm exits with status 1 when groq is missing or the key is falsy.
Construct ==
  /\ pc = "main"
  /\ api_key' = InitApiKey(arg_api_key, env_api_key)
  /\ IF groq_installed /\ Truthy(api_key')
     THEN pc' = "run" /\ UNCHANGED exit_status
     ELSE pc' = "exited" /\ exit_status' = <<1>>
  /\ UNCHANGED <<inputs, dir_exists, parser_file, pdf_path, agentState, retval, log>>

-----------------------------------------------------------------------------
(* BankParserAgent.run up to the loop *)

\* A validation that looks at the sample PDF only.
ValidateInputsPdfOnly(pdfOk, csvOk) == pdfOk

\* _validate_inputs
ValidateInputs(pdfOk, csvOk) == pdfOk /\ csvOk

\* The search for the sample PDF, AgentState(...), _validate_inputs, makedirs.
RunStart ==
  /\ pc = "run"
  /\ IF pdfs = {}
     THEN /\ pc' = "returned" /\ retval' = <<FALSE>>
          /\ UNCHANGED <<pdf_path, dir_exists>>
     ELSE /\ pdf_path' = Min(pdfs)
          /\ IF ValidateInputs(pdf_path' \in pdfs, csv_exists)
             THEN pc' = "loop" /\ dir_exists' = TRUE /\ UNCHANGED retval
             ELSE pc' = "returned" /\ retval' = <<FALSE>> /\ UNCHANGED dir_exists
  /\ log' = Append(log, Event("start", parser_file))
  /\ UNCHANGED <<inputs, api_key, parser_file, agentState, exit_status>>

-----------------------------------------------------------------------------
(* The agent loop: for attempt in range(state.max_attempts) *)

\* A loop that runs once too often.
LoopContinuesOffByOne(done) == done <= max_attempts

\* range(max_attempts) has another value after `done` iterations
LoopContinues(done) == done < max_attempts

\* An except clause that catches import failures only.
RunCatchesImportOnly(cls) == cls = "ImportError"

\* "except Exception as e" of the loop body
RunCatches(cls) == cls \in ExceptionSubclasses

\* Keeping only the latest error.
RecordErrorLatest(errs, msg) == <<msg>>

\* state.errors.append(msg), in the except clause and after a failed test
RecordError(errs, msg) == Append(errs, msg)

\* Planning anew in every attempt.
PlanNeededAlways(plan) == TRUE

\* if not state.current_plan
PlanNeeded(plan) == plan \in {"None", "empty"}

\* previous_errors of the generate prompt
PreviousErrors(errs) == IF errs # <<>> THEN JoinLines(errs) ELSE "None"

\* Opening the parser file for appending.
WriteFileAppend(file, code) == [exists |-> TRUE, text |-> file.text \o code]

\* with open(state.parser_path, 'w') as f: f.write(code)
WriteFile(file, code) == [exists |-> TRUE, text |-> code]

\* if state.test_results.get("success", False)
TestSucceeded(res) == DictGet(res, "success", FALSE)

\* The for statement: the next attempt, or the return after the loop.
LoopHead ==
  /\ pc = "loop"
  /\ IF LoopContinues(attempt)
     THEN attempt' = attempt + 1 /\ pc' = "plan" /\ UNCHANGED retval
     ELSE retval' = <<FALSE>> /\ pc' = "returned" /\ UNCHANGED attempt
  /\ UNCHANGED <<inputs, api_key, dir_exists, parser_file, pdf_path, current_plan,
                 generated_code, test_results, errors, response, observed,
                 exit_status, log>>

\* An except clause that records the error and goes on to Step 3.
RaisedRunsTest(e, sofar) ==
  /\ errors' = RecordError(errors, e.msg)
  /\ log' = Append(sofar, Failure(e.msg, "raised"))
  /\ pc' = "test"
  /\ UNCHANGED exit_status

\* An exception e leaves a phase: the except clause of the loop body records
\* str(e) and the loop goes on; an exception it does not catch leaves run.
Raised(e, sofar) ==
  IF RunCatches(e.cls)
  THEN /\ errors' = RecordError(errors, e.msg)
       /\ log' = Append(sofar, Failure(e.msg, "raised"))
       /\ pc' = "loop"
       /\ UNCHANGED exit_status
  ELSE /\ pc' = "crashed"
       /\ exit_status' = <<1>>
       /\ log' = sofar
       /\ UNCHANGED errors

\* Step 1: _plan_phase unless a plan is held.  Reading the CSV may raise, which
\* leaves the phase; a failed request, and text that json.loads rejects, give
\* the fallback plan.
PlanStep ==
  /\ pc = "plan"
  /\ IF ~PlanNeeded(current_plan)
     THEN pc' = "generate" /\ UNCHANGED <<current_plan, errors, log, exit_status>>
     ELSE IF ~csv.readable
     THEN Raised(CsvException, log) /\ UNCHANGED current_plan
     ELSE \E o \in PlanOutcomes :
            /\ log' = Append(log, Event("plan", PlanOf(o)))
            /\ current_plan' = PlanOf(o)
            /\ pc' = "generate"
            /\ UNCHANGED <<errors, exit_status>>
  /\ UNCHANGED <<inputs, api_key, dir_exists, parser_file, pdf_path, attempt,
                 generated_code, test_results, response, observed, retval>>

\* Step 2: _generate_phase.  The request carries previous_errors; a response
\* is cleaned, written to the parser file and kept as state.generated_code.
GenerateStep ==
  /\ pc = "generate"
  /\ IF ~csv.readable
     THEN Raised(CsvException, log)
          /\ UNCHANGED <<parser_file, generated_code, response>>
     ELSE LET request == Append(log, Event("generate", PreviousErrors(errors)))
          IN  \/ \E e \in LlmErrors :
                   /\ Raised(e, request)
                   /\ UNCHANGED <<parser_file, generated_code, response>>
              \/ \E content \in GenResponses :
                   LET code == CleanCode(content)
                   IN  /\ response' = <<content>>
                       /\ parser_file' = WriteFile(parser_file, code)
                       /\ generated_code' = code
                       /\ log' = Append(request, Event("write", code))
                       /\ pc' = "test"
                       /\ UNCHANGED <<errors, exit_status>>
  /\ UNCHANGED <<inputs, api_key, dir_exists, pdf_path, attempt, current_plan,
                 test_results, observed, retval>>

\* Step 3: _test_phase and the branch on its result.
TestStep ==
  /\ pc = "test"
  /\ \E b \in Behaviours(parser_file.text) :
       LET res == TestPhase(b, csv)
       IN  /\ observed' = <<b>>
           /\ test_results' = res
           /\ IF TestSucceeded(res)
              THEN /\ retval' = <<TRUE>>
                   /\ pc' = "returned"
                   /\ log' = Append(log, Event("test", "passed"))
                   /\ UNCHANGED errors
              ELSE LET msg == DictGet(res, "error", "Unknown test failure")
                   IN  /\ errors' = RecordError(errors, msg)
                       /\ log' = log \o <<Event("test", "failed"),
                                          Failure(msg, "test")>>
                       /\ pc' = "loop"
                       /\ UNCHANGED retval
  /\ UNCHANGED <<inputs, api_key, dir_exists, parser_file, pdf_path, attempt,
                 current_plan, generated_code, response, exit_status>>

-----------------------------------------------------------------------------
(* main: sys.exit(0 if success else 1) *)

\* sys.exit(success): True is status 1.
ExitStatusOfBool(success) == IF success THEN 1 ELSE 0

ExitStatus(success) == IF success THEN 0 ELSE 1

MainExit ==
  /\ pc = "returned"
  /\ exit_status' = <<ExitStatus(retval[1])>>
  /\ pc' = "exited"
  /\ UNCHANGED <<inputs, api_key, dir_exists, parser_file, pdf_path, agentState,
                 retval, log>>

Next ==
  \/ Construct
  \/ RunStart
  \/ LoopHead
  \/ PlanStep
  \/ GenerateStep
  \/ TestStep
  \/ MainExit

Spec == Init /\ [][Next]_vars

\* Every call returns or raises: a step that can be taken is taken.
FairSpec == Spec /\ WF_vars(Next)

-----------------------------------------------------------------------------
(* _test_phase by itself: every observation against every expected file. *)

\* The state around a single call of one method of the agent.
Idle ==
  /\ arg_api_key = NONE /\ env_api_key = NONE /\ groq_installed = TRUE
  /\ pdfs = {1} /\ csv_exists = TRUE /\ dir_exists = TRUE
  /\ api_key = "api_key" /\ pdf_path = 1 /\ attempt = 1
  /\ current_plan = "fallback" /\ errors = <<>> /\ test_results = <<>>
  /\ retval = <<>> /\ exit_status = <<>> /\ log = <<>>

InitTestPhase ==
  /\ pc = "test_phase"
  /\ Idle
  /\ csv \in { [columns |-> f.columns, rows |-> f.rows, readable |-> r] :
                 f \in CsvFiles, r \in BOOLEAN }
  /\ pdf_text = [ok |-> TRUE, text |-> <<>>]
  /\ parser_file = [exists |-> TRUE, text |-> <<CODE>>]
  /\ generated_code = <<CODE>>
  /\ response = <<>>
  /\ observed \in {<<b>> : b \in TestInputs}

TestCall ==
  /\ pc = "test_phase"
  /\ test_results' = TestPhase(observed[1], csv)
  /\ pc' = "tested"
  /\ UNCHANGED <<inputs, api_key, dir_exists, parser_file, pdf_path, attempt,
                 current_plan, generated_code, errors, retval, exit_status,
                 response, observed, log>>

SpecTestPhase == InitTestPhase /\ [][TestCall]_vars

-----------------------------------------------------------------------------
(* The clean-up of _generate_phase by itself, on every response made of up *)
(* to MaxSegments pieces.                                                  *)

Segments == {Fence, FenceLiteral, <<PYWORD>>, <<NL>>, <<CODE>>, <<PROSE>>}

RECURSIVE Flatten(_)
Flatten(parts) == IF parts = <<>> THEN <<>> ELSE Head(parts) \o Flatten(Tail(parts))

SegmentResponses ==
  UNION { {Flatten(f) : f \in [1..n -> Segments]} : n \in 0..MaxSegments }

InitGenerate ==
  /\ pc = "generate_phase"
  /\ Idle
  /\ csv = [columns |-> IciciColumns, rows |-> 2, readable |-> TRUE]
  /\ pdf_text = [ok |-> TRUE, text |-> <<>>]
  /\ parser_file = [exists |-> FALSE, text |-> <<>>]
  /\ generated_code = <<>>
  /\ observed = <<>>
  /\ response \in {<<r>> : r \in SegmentResponses \cup GenResponses}

\* lines 256-289: clean the content, write it, return it
GenerateCall ==
  /\ pc = "generate_phase"
  /\ generated_code' = CleanCode(response[1])
  /\ parser_file' = WriteFile(parser_file, generated_code')
  /\ pc' = "generated"
  /\ UNCHANGED <<inputs, api_key, dir_exists, pdf_path, attempt, current_plan,
                 test_results, errors, retval, exit_status, response, observed,
                 log>>

SpecGenerate == InitGenerate /\ [][GenerateCall]_vars

-----------------------------------------------------------------------------
(* custom_parsers/icici_parser.py: parse(pdf_path), on the text pdfplumber  *)
(* extracts.  A text is a sequence of characters: digits, "-", ".", ",",    *)
(* blank, newline, and "x" for any other character.                         *)

\* The longest extracted text that is enumerated character by character.
MaxTextLen == 3

Digits == {"0", "1", "2", "3", "4", "5", "6", "7", "8", "9"}
IsDigit(c) == c \in Digits
DigitVal(c) ==
  CASE c = "0" -> 0 [] c = "1" -> 1 [] c = "2" -> 2 [] c = "3" -> 3 [] c = "4" -> 4
    [] c = "5" -> 5 [] c = "6" -> 6 [] c = "7" -> 7 [] c = "8" -> 8 [] OTHER -> 9

\* s[i..j] lies in s and holds digits only
AllDigits(s, i, j) == j <= Len(s) /\ \A k \in i..j : IsDigit(s[k])

\* re.sub(r'\s+', ' ', text)
RECURSIVE CollapseSpace(_)
CollapseSpace(s) ==
  IF s = <<>> THEN <<>>
  ELSE IF IsSpace(Head(s)) THEN <<SP>> \o CollapseSpace(LStrip(s))
  ELSE <<Head(s)>> \o CollapseSpace(Tail(s))

\* re.sub(r'\n', ' ', text)
SubNewline(s) == [i \in DOMAIN s |-> IF s[i] = NL THEN SP ELSE s[i]]

\* line.replace(',', '')
RemoveCommas(s) == SelectSeq(s, LAMBDA c : c # ",")

\* re.match(r'\d{2}-\d{2}-\d{4}', line)
MatchDate(line) ==
  /\ Len(line) >= 10
  /\ AllDigits(line, 1, 2) /\ line[3] = "-"
  /\ AllDigits(line, 4, 5) /\ line[6] = "-"
  /\ AllDigits(line, 7, 10)

DaysIn(month, year) ==
  IF month \in {4, 6, 9, 11} THEN 30
  ELSE IF month # 2 THEN 31
  ELSE IF year % 4 = 0 /\ (year % 100 # 0 \/ year % 400 = 0) THEN 29 ELSE 28

\* datetime.strptime(line, '%d-%m-%Y') returns, for a line that matches the
\* date pattern at its start: nothing may follow the year, and the day and
\* the month must exist.
StrptimeOk(line) ==
  /\ Len(line) = 10
  /\ LET day == 10 * DigitVal(line[1]) + DigitVal(line[2])
         month == 10 * DigitVal(line[4]) + DigitVal(line[5])
         year == 1000 * DigitVal(line[7]) + 100 * DigitVal(line[8])
                   + 10 * DigitVal(line[9]) + DigitVal(line[10])
     IN  /\ year >= 1
         /\ month \in 1..12
         /\ day >= 1 /\ day <= DaysIn(month, year)

\* re.match(r'.*\d{2,3}.*', line): two digits in a row before any newline
MatchDescription(line) ==
  LET first == Split(line, <<NL>>)[1]
  IN  \E i \in 1..Len(first) : AllDigits(first, i, i + 1)

\* re.match(r'\d{1,3}(,\d{3})*\.?\d{0,2}', line): all but one digit is optional
MatchAmount(line) == AllDigits(line, 1, 1)

\* float(s) returns, for an s that starts with a digit: after the blanks
\* around it are dropped, digits with at most one point (no letter of these
\* texts is an exponent).
FloatOk(s) ==
  LET t == Strip(s)
  IN  /\ \A i \in 1..Len(t) : IsDigit(t[i]) \/ t[i] = "."
      /\ Cardinality({i \in 1..Len(t) : t[i] = "."}) <= 1

\* `point` optional points and up to two digits end the line after position n
AmountTail(line, n) ==
  \E point \in 0..1, frac \in 0..2 :
    /\ n + point + frac = Len(line)
    /\ point = 1 => line[n + 1] = "."
    /\ AllDigits(line, n + point + 1, n + point + frac)

\* re.match(r'^\d+\.?\d{0,2}$', line)
MatchDebit(line) ==
  \E n \in 1..Len(line) : AllDigits(line, 1, n) /\ AmountTail(line, n)

\* re.match(r'^\d{1,3}(,\d{3})*\.?\d{0,2}$', line)
MatchCredit(line) ==
  \E n \in 1..3, groups \in 0..Len(line) :
    /\ AllDigits(line, 1, n)
    /\ n + 4 * groups <= Len(line)
    /\ \A g \in 0..(groups - 1) :
         /\ line[n + 4 * g + 1] = ","
         /\ AllDigits(line, n + 4 * g + 2, n + 4 * g + 4)
    /\ AmountTail(line, n + 4 * groups)

\* data before the loop
EmptyData ==
  [Date |-> <<>>, Description |-> <<>>, Debit |-> <<>>, Credit |-> <<>>,
   Balance |-> <<>>]

\* The loop over the lines: the lists of the data dictionary after it, or
\* raised when strptime or float raises.
RECURSIVE ClassifyLines(_, _)
ClassifyLines(lines, data) ==
  IF lines = <<>> THEN [raised |-> FALSE, data |-> data]
  ELSE LET line == Head(lines)
           rest == Tail(lines)
       IN  IF MatchDate(line)
           THEN IF StrptimeOk(line)
                THEN ClassifyLines(rest, [data EXCEPT !.Date = Append(@, line)])
                ELSE [raised |-> TRUE, data |-> data]
           ELSE IF MatchDescription(line)
           THEN ClassifyLines(rest, [data EXCEPT !.Description = Append(@, line)])
           ELSE IF MatchAmount(line)
           THEN IF ~FloatOk(RemoveCommas(line))
                THEN [raised |-> TRUE, data |-> data]
                ELSE IF MatchDebit(line)
                THEN ClassifyLines(rest, [data EXCEPT !.Debit = Append(@, line)])
                ELSE IF MatchCredit(line)
                THEN ClassifyLines(rest, [data EXCEPT !.Credit = Append(@, line)])
                ELSE ClassifyLines(rest, data)
           ELSE ClassifyLines(rest, data)

\* pd.DataFrame(data) raises unless all lists have one length
SameLengths(data) ==
  \A f \in DOMAIN data : Len(data[f]) = Len(data.Date)

\* parse(pdf_path): None when anything raises (the except clause), else the
\* DataFrame of the five lists.
IciciParse(pdf) ==
  IF ~pdf.ok THEN Behaviour("value", "", <<>>, 0, TRUE)
  ELSE LET text == Strip(SubNewline(CollapseSpace(pdf.text)))
           out == ClassifyLines(Split(text, <<NL>>), EmptyData)
       IN  IF out.raised \/ ~SameLengths(out.data)
           THEN Behaviour("value", "", <<>>, 0, TRUE)
           ELSE Behaviour("df", "", IciciColumns, Len(out.data.Date), TRUE)

\* import icici_parser: the module, or SyntaxError when the file does not
\* compile.
ImportModule(text) ==
  IF PyCompiles(text) THEN Behaviour("module", "", <<>>, 0, TRUE)
  ELSE Behaviour("raise", "invalid syntax", <<>>, 0, TRUE)

TextChars == {"1", "-", ".", ",", "x", SP, NL}

\* The texts of sample PDFs: every short text, and statement-like lines.
SampleTexts ==
  UNION { [1..n -> TextChars] : n \in 0..MaxTextLen }
  \cup { <<"1", "1", "-", "1", "1", "-", "2", "0", "2", "4">>,
         <<"3", "1", "-", "0", "2", "-", "2", "0", "2", "4">>,
         <<"1", "1", "-", "1", "1", "-", "2", "0", "2", "4", SP, "x", SP, "5", "0", "0">>,
         <<"1", ",", "0", "0", "0", ".", "5", "0">>,
         <<"x", NL, "x", SP, "1", "2", "3">> }

\* The test suite (test_agent.py) on the shipped parser file.
InitIcici ==
  /\ pc = "pytest"
  /\ Idle
  /\ csv = [columns |-> IciciColumns, rows |-> 2, readable |-> TRUE]
  /\ pdf_text \in {[ok |-> FALSE, text |-> <<>>]}
                    \cup {[ok |-> TRUE, text |-> t] : t \in SampleTexts}
  /\ parser_file = [exists |-> TRUE, text |-> ShippedParser]
  /\ generated_code = <<>>
  /\ response = <<>>
  /\ observed = <<>>

\* import icici_parser
ImportIcici ==
  /\ pc = "pytest"
  /\ observed' = <<ImportModule(parser_file.text)>>
  /\ pc' = "imported"
  /\ UNCHANGED <<inputs, api_key, dir_exists, parser_file, pdf_path, attempt,
                 current_plan, generated_code, test_results, errors, retval,
                 exit_status, response, log>>

\* parse(pdf_path), as the function of the file computes it
ParseCall ==
  /\ pc = "pytest"
  /\ observed' = <<IciciParse(pdf_text)>>
  /\ pc' = "parsed"
  /\ UNCHANGED <<inputs, api_key, dir_exists, parser_file, pdf_path, attempt,
                 current_plan, generated_code, test_results, errors, retval,
                 exit_status, response, log>>

NextIcici == ImportIcici \/ ParseCall

SpecIcici == InitIcici /\ [][NextIcici]_vars

-----------------------------------------------------------------------------
(* Reading the log. *)

Idx == DOMAIN log

Max(S) == CHOOSE x \in S : \A y \in S : y <= x

\* the entries of kind k, and those of attempt a
At(k) == {i \in Idx : log[i].k = k}
AtIn(k, a) == {i \in At(k) : log[i].attempt = a}

\* attempt a has run to its end
Finished(a) ==
  a \in 1..attempt /\ (a < attempt \/ pc \in {"loop", "returned", "exited", "crashed"})

\* the test of attempt a passed
PassedIn(a) == \E i \in AtIn("test", a) : log[i].data = "passed"

\* the error strings recorded by the attempts before a, in order of occurrence
ErrorsBefore(a) ==
  LET es == SelectSeq(log, LAMBDA e : e.k = "error" /\ e.attempt < a)
  IN  [i \in DOMAIN es |-> es[i].data.msg]

\* the position of a phase in an attempt
Rank(k) == CASE k = "plan" -> 1 [] k = "generate" -> 2 [] k = "test" -> 3 [] OTHER -> 0

-----------------------------------------------------------------------------
(* C1: the attempt counter stays within 0..3, and one run makes at most     *)
(* three generate requests and at most three test executions.               *)
C1_AttemptBounded ==
  /\ attempt \in 0..3
  /\ Cardinality(At("generate")) <= 3
  /\ Cardinality(At("test")) <= 3

\* a run that used all three attempts, each with a generate request and a test
C1_ThreeFullAttempts ==
  /\ pc = "returned"
  /\ attempt = 3
  /\ Cardinality(At("generate")) = 3
  /\ Cardinality(At("test")) = 3

(* C2: run always terminates and returns a boolean, after at most three     *)
(* attempts, and no exception raised inside an attempt leaves run.          *)
C2_RunTerminates ==
  /\ [](pc = "returned" => retval \in {<<TRUE>>, <<FALSE>>} /\ attempt <= 3)
  /\ [](pc # "crashed")
  /\ (pc = "run") ~> (pc = "returned")

\* run has returned False after a raising generate request, a raising test and
\* a failing test
C2_ReturnedAfterRaises ==
  /\ pc = "returned"
  /\ retval = <<FALSE>>
  /\ attempt = 3
  /\ \E i \in At("error") : log[i].data.cause = "raised"
  /\ \E i \in At("error") : log[i].data.msg = "Parser execution failed: No such file"
  /\ \E i \in At("error") : log[i].data.msg = "Parser returned empty DataFrame"

(* C3, as claimed: every attempt that has run to its end made a plan        *)
(* request, then a generate request, then executed the test.                *)
C3_EveryAttemptFullCycle ==
  \A a \in 1..attempt :
    Finished(a) =>
      \E i \in AtIn("plan", a), j \in AtIn("generate", a), l \in AtIn("test", a) :
        i < j /\ j < l

(* C3, amended: within an attempt the phases run in the order plan,         *)
(* generate, test, each at most once; a plan request is made only while no  *)
(* non-empty plan is held, so a retry reuses the plan of an earlier attempt;*)
(* every generate request has a plan request before it, in its attempt or   *)
(* an earlier one; the test runs only directly after the code of that       *)
(* attempt's generate response was written; and an attempt makes a generate *)
(* request unless reading the CSV raised.                                   *)
C3_PhasesInOrder ==
  /\ \A i, j \in Idx :
       (i < j /\ log[i].attempt = log[j].attempt
          /\ Rank(log[i].k) > 0 /\ Rank(log[j].k) > 0)
         => Rank(log[i].k) < Rank(log[j].k)
  /\ \A i \in At("plan") : \A j \in At("plan") : j < i => log[j].data = "empty"
  /\ \A i \in At("generate") : \E j \in At("plan") : j < i
  /\ \A i \in At("test") :
       /\ i > 2
       /\ log[i-1].k = "write" /\ log[i-1].attempt = log[i].attempt
       /\ log[i-2].k = "generate" /\ log[i-2].attempt = log[i].attempt
  /\ \A a \in 1..attempt :
       (Finished(a) /\ csv.readable) => AtIn("generate", a) # {}

\* a retry that generated and tested without a plan request of its own
C3_RetryReusesPlan ==
  \E a \in 2..attempt :
    AtIn("plan", a) = {} /\ AtIn("generate", a) # {} /\ AtIn("test", a) # {}

(* C4: every attempt that does not succeed appends exactly one error string *)
(* to state.errors, and the generate request of attempt k carries exactly   *)
(* the k-1 error strings of the attempts before it, in order, joined by     *)
(* newlines; the request of attempt 1 carries "None".                       *)
C4_FailuresFedBack ==
  /\ \A i \in At("generate") :
       LET k == log[i].attempt
           prev == ErrorsBefore(k)
       IN  /\ Len(prev) = k - 1
           /\ log[i].data = IF k = 1 THEN "None" ELSE JoinLines(prev)
  /\ \A a \in 1..attempt :
       (Finished(a) /\ ~PassedIn(a)) => Cardinality(AtIn("error", a)) = 1
  /\ errors = ErrorsBefore(attempt + 1)

\* the third generate request, carrying two different errors
C4_ThirdRequestCarriesTwo ==
  \E i \in AtIn("generate", 3) :
    /\ Len(errors) >= 2
    /\ errors[1] # errors[2]
    /\ log[i].data = errors[1] \o "\n" \o errors[2]

(* C5, as claimed: after every attempt the parser file holds the code       *)
(* generated in that attempt.                                               *)
C5_FileHoldsAttemptCode ==
  (pc = "loop" /\ attempt >= 1) =>
    /\ parser_file.exists
    /\ \E i \in AtIn("write", attempt) : log[i].data = parser_file.text

(* C5, amended: there is one parser file, and it always holds the code      *)
(* written last: every attempt whose generate request returns a response    *)
(* overwrites it with that attempt's code, and an attempt that raises       *)
(* before writing leaves what an earlier attempt or an earlier run left.    *)
C5_FileHoldsLastWrittenCode ==
  log # <<>> =>
    /\ IF At("write") = {}
       THEN parser_file = log[1].data
       ELSE LET last == log[Max(At("write"))]
            IN  /\ parser_file = [exists |-> TRUE, text |-> last.data]
                /\ generated_code = last.data
    /\ \A i \in At("write") :
         /\ log[i-1].k = "generate" /\ log[i-1].attempt = log[i].attempt
         /\ log[i].data = CleanCode(response[1]) \/ i < Max(At("write"))

\* the second attempt raised before writing: the file is the first attempt's
C5_FileOfEarlierAttempt ==
  /\ pc = "loop"
  /\ attempt = 2
  /\ AtIn("write", 2) = {}
  /\ \E i \in AtIn("write", 1) : parser_file.text = log[i].data

(* C6: run returns True exactly when the test of some attempt reported      *)
(* success, it returns at that attempt without a further plan, generate or  *)
(* test step, and the process exits with status 0 exactly when run returned *)
(* True and with status 1 otherwise.                                        *)
C6_RetryOnlyOnFailure ==
  /\ retval # <<>> =>
       /\ retval[1] <=> \E a \in 1..attempt : PassedIn(a)
       /\ retval[1] => TestSucceeded(test_results)
  /\ \A a \in 1..attempt :
       PassedIn(a) =>
         /\ a = attempt
         /\ log[Len(log)].k = "test"
         /\ pc \in {"returned", "exited"}
         /\ retval = <<TRUE>>
  /\ pc = "exited" =>
       exit_status = IF retval = <<TRUE>> THEN <<0>> ELSE <<1>>

\* the process exited with status 0 after a retry
C6_SucceededOnRetry ==
  /\ pc = "exited"
  /\ exit_status = <<0>>
  /\ attempt = 2
  /\ Len(errors) = 1

(* C7: _test_phase reports success only if parse returned a DataFrame whose *)
(* columns are those of the expected CSV, in the same order, and that has   *)
(* at least one row; in every other case, an exception in the generated     *)
(* code included, it returns success False with an error string.            *)
C7_TestPhaseChecksOutput ==
  pc = "tested" =>
    LET b == observed[1]
        matches == b.kind = "df" /\ b.cols = csv.columns /\ b.rows >= 1
    IN  /\ TestSucceeded(test_results) => matches
        /\ ~matches =>
             /\ "success" \in DOMAIN test_results /\ ~test_results.success
             /\ "error" \in DOMAIN test_results /\ test_results.error # ""

\* the test passed on a DataFrame with the expected columns and two rows
C7_MatchingOutputPasses ==
  /\ pc = "tested"
  /\ TestSucceeded(test_results)
  /\ observed[1].cols = IciciColumns
  /\ observed[1].rows = 2

(* C8, as claimed: the shipped ICICI parser module can be imported, and    *)
(* for every sample PDF parse returns a DataFrame (never None) whose        *)
(* columns are Date, Description, Debit Amt, Credit Amt, Balance.           *)
C8_IciciParserWorks ==
  /\ pc = "imported" => observed[1].kind = "module"
  /\ pc = "parsed" => observed[1].kind = "df" /\ observed[1].cols = IciciColumns

(* C9, as claimed: the agent uses the --api-key argument when it is given,  *)
(* otherwise GROQ_API_KEY, and when neither is set it exits with status 1   *)
(* before any request is made.                                              *)
C9_UsesSuppliedKey ==
  pc # "main" =>
    IF arg_api_key # NONE THEN api_key = arg_api_key
    ELSE IF env_api_key # NONE THEN api_key = env_api_key
    ELSE pc = "exited" /\ exit_status = <<1>> /\ log = <<>>

\* The code a response wraps in a fenced block, with or without the word
\* python after the opening fence; << >> when it wraps none.
WrappedCode(content) ==
  LET parts == Split(content, Fence)
  IN  IF Len(parts) < 3 THEN <<>>
      ELSE Strip(IF StartsWith(parts[2], <<PYWORD>>) THEN Tail(parts[2]) ELSE parts[2])

(* C10, as claimed: when the response wraps the code in a fenced block, the *)
(* text written to the parser file has no line starting with a fence and    *)
(* begins with Python source.                                               *)
C10_FencesStripped ==
  (pc = "generated" /\ StartsWith(WrappedCode(response[1]), <<CODE>>)) =>
    /\ ~HasFenceLine(parser_file.text)
    /\ StartsWith(parser_file.text, <<CODE>>)


-----------------------------------------------------------------------------
(* C11: a test is executed only after the generate phase of the same        *)
(* attempt wrote the parser file.  An attempt whose plan or generate phase  *)
(* raised executes no test, has the text of the exception as its entry of   *)
(* state.errors, and is over: what follows belongs to a later attempt, of   *)
(* which there are at most three in all.                                    *)
C11_TestOnlyAfterWrite ==
  /\ \A i \in At("test") : \E j \in AtIn("write", log[i].attempt) : j < i
  /\ \A i \in At("error") :
       log[i].data.cause = "raised" =>
         LET k == log[i].attempt
         IN  /\ AtIn("test", k) = {}
             /\ k \in 1..max_attempts
             /\ Len(errors) >= k
             /\ errors[k] = log[i].data.msg
             /\ \A j \in Idx : j > i => log[j].attempt > k

\* the generate request of attempt 2 raised while the file written by attempt
\* 1 was on disk; attempt 2 made no test and attempt 3 was the last
C11_RaiseSkipsTest ==
  /\ pc = "returned"
  /\ attempt = 3
  /\ AtIn("write", 1) # {}
  /\ AtIn("test", 1) # {}
  /\ \E i \in AtIn("error", 2) : log[i].data.cause = "raised"
  /\ AtIn("generate", 2) # {}
  /\ AtIn("write", 2) = {}
  /\ AtIn("test", 2) = {}
  /\ parser_file.exists
  /\ AtIn("test", 3) # {}
  /\ Len(errors) = 3

\* no candidate path of the sample PDF exists, or result.csv does not
PreconditionsFail == pdfs = {} \/ ~csv_exists

(* C12: when no sample PDF exists at any candidate path, or result.csv does *)
(* not exist, run returns False from its first step, the attempt counter    *)
(* stays 0, no plan or generate request is made, nothing is written, and no *)
(* step creates the directory custom_parsers or changes the parser file.    *)
C12_FailedPreconditionsTouchNothing ==
  /\ []((PreconditionsFail /\ retval # <<>>) =>
          /\ retval = <<FALSE>>
          /\ attempt = 0
          /\ \A i \in Idx : log[i].k = "start")
  /\ [][PreconditionsFail =>
          /\ UNCHANGED <<dir_exists, parser_file, attempt, generated_code>>
          /\ pc = "run" => pc' = "returned" /\ retval' = <<FALSE>>]_vars

\* run has returned False for a missing result.csv, with a sample PDF present:
\* custom_parsers was not created and there is no parser file
C12_MissingCsvReturnsFalse ==
  /\ pc = "returned"
  /\ retval = <<FALSE>>
  /\ pdfs # {}
  /\ ~csv_exists
  /\ attempt = 0
  /\ ~dir_exists
  /\ ~parser_file.exists
=============================================================================
